---------------------------- MODULE Spec2Model ----------------------------
(***************************************************************************)
(* Cluster Compliance Checker: the check-orchestration engine (core.py),   *)
(* the dependency container it drives (dependencies.py) and the ephemeral  *)
(* resource scopes of the Spawner (spawner.py).                            *)
(*                                                                         *)
(* The specifications share the variables:                                 *)
(*   Spec        - one run of Core.generate_report over a list of sections *)
(*   SectionSpec - Section.generate_report of one section on its own       *)
(*   SpawnerSpec - the Spawner context managers used as scopes, with every *)
(*                 exit path of the body                                   *)
(*   WaitSpec    - one call of util.wait_for                               *)
(*   RegistrySpec - section types being defined, checks registered on them *)
(*   DiscoverySpec - discover_sections, run after run, on a loaded package *)
(*   SelectorSpec - process_checks_to_find on its own                      *)
(*   CheckSpec   - generate_report of the checks that spawn a workload     *)
(*   MainSpec    - main building the container, then the registry secret   *)
(***************************************************************************)
EXTENDS Integers, Sequences, FiniteSets, TLC

\* ------------------------------------------------------------------ bounds
MaxSections == 2      \* sections handed to Core
MaxRunChecks == 2     \* checks registered in the sections handed to Core
MaxChecks == 3        \* checks registered in a section run on its own
MaxPvc == 2           \* volume claims carrying one app label
MaxFaults == 1        \* failures of the environment during a Core run
MaxTimeout == 3       \* wait_for: the timeout, in seconds
MaxInterval == 2      \* wait_for: the interval, in seconds
MaxTypes == 2         \* section types defined
MaxRegistered == 2    \* register calls made
MaxSelectors == 2     \* selectors handed to discover_sections

\* ------------------------------------------------------------------ state
VARIABLES
    cluster,    \* the cluster: [secret, svc, sts, pvcs]
    hpc,        \* scope harness: "idle", "body", "closed"
    scope,      \* scope harness: the scope in use and the generator's position
    hlog,       \* scope harness: cluster API calls issued by the scope, in order
    hpre,       \* scope harness: the cluster when the scope was opened
    hout,       \* scope harness: how the body ended and what the caller received
    pc,         \* Core: where the run is
    idx,        \* Core: the section of the list being processed (its name),
                \* 0 for none
    nchecks,    \* Section: Len(section_class.checks)
    registered, \* Core: checks registered in the sections processed so far
    ck,         \* Section.run_all_checks: the check being run
    checks,     \* Section.generate_report: the records collected so far
    section_result,  \* what Section.generate_report returned
    yielded,    \* the records run_all_sections has yielded so far
    report,     \* what Core.generate_report returned
    dep,        \* the Dependencies container: [init, spawner, secret_pos]
    registry_data,   \* Dependencies.registry_secret_data
    exc,        \* the exception travelling through run_all_sections
    faults,     \* failures of the environment the run has met
    events,     \* what the run did, in order: <<"bind", section>>,
                \* <<"skip", section, what skip() did>>,
                \* <<"provision", section, succeeded, failed with resources
                \* initialized>>,
                \* <<"check", section, check, what perform_check did>>,
                \* <<"release", section>>
    wpc,        \* wait_for: where the call is
    timeout,    \* wait_for: its arguments
    interval,
    start_time, \* wait_for: the clock's reading at the call
    now,        \* time.perf_counter(), in seconds
    return_value,    \* wait_for: what condition() returned last
    wlog,       \* wait_for: <<"condition", value>> and <<"sleep", seconds>>, in order
    wexc,       \* wait_for: the exception the caller receives
    rpc,        \* registry: "import" while modules are loaded, "run" when
                \* sections are discovered, "parse" for selectors on their own
    types,      \* the section types defined, in order: [base, checks, given,
                \* inherited, started]; checks is the list object bound to
                \* the type's own attribute `checks`
    heap,       \* the list objects, by identity
    reglog,     \* the register calls that went through, <<type, check>>
    selected,   \* discover_sections: its last argument checks_to_find, if any
    found,      \* discover_sections: what it last returned or raised, if any
    rexc,       \* registry: the exception of the last call
    cli         \* main: the registry options of the command line

hvars == <<hpc, scope, hlog, hpre, hout>>
cvars == <<pc, idx, nchecks, registered, ck, checks, section_result, yielded, report,
           dep, registry_data, exc, faults, events>>
wvars == <<wpc, timeout, interval, start_time, now, return_value, wlog, wexc>>
rvars == <<rpc, types, heap, reglog, selected, found, rexc>>
vars == <<cluster, hvars, cvars, wvars, rvars, cli>>

\* Python's None: among strings, where a record may stand, and as the absent
\* fault of a CheckResult.  Raises: an exception leaving perform_check.
None == "None"
Nothing == [nothing |-> TRUE]
NoProblem == [text |-> "", n |-> 0]
Raises == [raises |-> "Exception"]

\* Names of the workloads the program creates (dependencies.py:51, :88).
StsNames == {"single-pod", "pod-on-each-node"}

\* A volume claim is identified by its app label and an ordinal.
PvcIds == StsNames \X (1..MaxPvc)

Clusters == [secret : BOOLEAN, svc : BOOLEAN, sts : SUBSET StsNames,
             pvcs : SUBSET PvcIds]

\* ------------------------------------------------- the cluster API surface
\* An API call either takes effect or raises ApiException.  It must fail when
\* its object is missing (read, delete) or already there (create); it can
\* fail for reasons of the environment (connectivity, authorisation), as long
\* as m.left such failures remain to be met.
\* m is [cl |-> cluster, log |-> calls issued so far, left |-> failures left].
Logged(m, op, arg, ok) == [m EXCEPT !.log = Append(@, <<op, arg, ok>>)]

Failing(m) == [m EXCEPT !.left = @ - 1]

ApiCall(m, op, arg, possible, cl2) ==
    IF possible
    THEN {[ok |-> TRUE, m |-> [Logged(m, op, arg, TRUE) EXCEPT !.cl = cl2]]}
         \cup (IF m.left > 0
                  THEN {[ok |-> FALSE, m |-> Failing(Logged(m, op, arg, FALSE))]}
                  ELSE {})
    ELSE {[ok |-> FALSE, m |-> Logged(m, op, arg, FALSE)]}

read_namespaced_secret(m) ==
    ApiCall(m, "read_secret", None, m.cl.secret, m.cl)

create_namespaced_secret(m) ==
    ApiCall(m, "create_secret", None, ~m.cl.secret, [m.cl EXCEPT !.secret = TRUE])

delete_namespaced_secret(m) ==
    ApiCall(m, "delete_secret", None, m.cl.secret, [m.cl EXCEPT !.secret = FALSE])

create_namespaced_service(m) ==
    ApiCall(m, "create_service", None, ~m.cl.svc, [m.cl EXCEPT !.svc = TRUE])

delete_namespaced_service(m) ==
    ApiCall(m, "delete_service", None, m.cl.svc, [m.cl EXCEPT !.svc = FALSE])

\* Creating a workload with nvol volume claim templates brings its claims
\* into being, labelled app=<name>; deleting the workload leaves them.
create_namespaced_stateful_set(m, name, nvol) ==
    ApiCall(m, "create_sts", name, name \notin m.cl.sts,
            [m.cl EXCEPT !.sts = @ \cup {name},
                         !.pvcs = @ \cup ({name} \X (1..nvol))])

delete_namespaced_stateful_set(m, name) ==
    ApiCall(m, "delete_sts", name, name \in m.cl.sts,
            [m.cl EXCEPT !.sts = @ \ {name}])

list_namespaced_persistent_volume_claim(m, label) ==
    ApiCall(m, "list_pvc", label, TRUE, m.cl)

delete_namespaced_persistent_volume_claim(m, pvc) ==
    ApiCall(m, "delete_pvc", pvc, pvc \in m.cl.pvcs,
            [m.cl EXCEPT !.pvcs = @ \ {pvc}])


\* ------------------------------------------------------------- spawner.py
\* A context manager is a generator: entering runs it to its yield, leaving
\* resumes it there, normally ("none") or by throwing the body's exception.
\* Each operator gives the set of outcomes [st, m] the API's answers allow:
\* st is the generator's new position, or what its caller receives.
BodyExits == {"none", "return", "ApiException", "Error"}

\* What the with statement hands to the generator when the body ends: an
\* early return leaves the block like a normal end.
Thrown(how) == IF how \in {"none", "return"} THEN "none" ELSE how

\* Spawner._delete_all_pvcs, the loop of lines 19-24 from ordinal i on, over
\* the listing `items`.
RECURSIVE delete_listed_pvcs(_, _, _, _)
delete_listed_pvcs(m, label, items, i) ==
    IF i > MaxPvc THEN {[ok |-> TRUE, m |-> m]}
    ELSE IF <<label, i>> \notin items THEN delete_listed_pvcs(m, label, items, i + 1)
    ELSE UNION { IF d.ok THEN delete_listed_pvcs(d.m, label, items, i + 1)
                         ELSE {[ok |-> FALSE, m |-> d.m]}
                 : d \in delete_namespaced_persistent_volume_claim(m, <<label, i>>) }

delete_all_pvcs(m, label) ==
    UNION { IF l.ok
               THEN delete_listed_pvcs(l.m, label, {p \in l.m.cl.pvcs : p[1] = label}, 1)
               ELSE {[ok |-> FALSE, m |-> l.m]}
            : l \in list_namespaced_persistent_volume_claim(m, label) }

\* The finally block with the two deletions in the other order.
stateful_set_finally_claims_first(m, name) ==
    UNION { IF p.ok THEN { [ok |-> d.ok, m |-> d.m]
                           : d \in delete_namespaced_stateful_set(p.m, name) }
                    ELSE {[ok |-> FALSE, m |-> p.m]}
            : p \in delete_all_pvcs(m, name) }

\* Spawner.stateful_set, the finally block (lines 75-78).
stateful_set_finally(m, name) ==
    UNION { IF d.ok THEN delete_all_pvcs(d.m, name)
                    ELSE {[ok |-> FALSE, m |-> d.m]}
            : d \in delete_namespaced_stateful_set(m, name) }

\* Leaving the scope with `thrown` pending ("none": a normal end).
stateful_set_exit(m, name, thrown) ==
    { [st |-> IF f.ok THEN thrown ELSE "ApiException", m |-> f.m]
      : f \in stateful_set_finally(m, name) }

\* Entering the scope: the create call sits inside the try (line 74).
stateful_set_enter(m, name, nvol) ==
    UNION { IF c.ok THEN {[st |-> "yield", m |-> c.m]}
                    ELSE stateful_set_exit(c.m, name, "ApiException")
            : c \in create_namespaced_stateful_set(m, name, nvol) }

\* Spawner.service (lines 53-64): leaving the scope, and entering it, the
\* create call inside the try (line 61).
service_exit(m, thrown) ==
    { [st |-> IF d.ok THEN thrown ELSE "ApiException", m |-> d.m]
      : d \in delete_namespaced_service(m) }

service_enter(m) ==
    UNION { IF c.ok THEN {[st |-> "yield", m |-> c.m]}
                    ELSE service_exit(c.m, "ApiException")
            : c \in create_namespaced_service(m) }

\* Spawner.secret, the second try block (lines 41-51) up to its yield.
secret_create(m) ==
    UNION { IF c.ok THEN {[st |-> "created", m |-> c.m]}
                    ELSE { [st |-> "ApiException", m |-> d.m]
                           : d \in delete_namespaced_secret(c.m) }
            : c \in create_namespaced_secret(m) }

\* The except clause going on to create the secret whatever data is.
secret_absent_creates(m, data) == secret_create(m)

\* Spawner.secret, the except clause (lines 37-40) and what follows it.
secret_absent(m, data) ==
    IF data = None THEN {[st |-> "NoRegistryCredentials", m |-> m]}
    ELSE secret_create(m)

\* Entering the scope (lines 33-35).
secret_enter(m, data) ==
    UNION { IF r.ok THEN {[st |-> "found", m |-> r.m]}
                    ELSE secret_absent(r.m, data)
            : r \in read_namespaced_secret(m) }

\* Leaving the scope as if the delete of line 51 followed the yield without a
\* finally: an error of the body passes it by.
secret_exit_no_finally(m, pos, data, thrown) ==
    IF pos = "found" \/ thrown # "none"
    THEN {[st |-> thrown, m |-> m]}
    ELSE { [st |-> IF d.ok THEN thrown ELSE "ApiException", m |-> d.m]
           : d \in delete_namespaced_secret(m) }

\* Leaving the scope from the yield at `pos` with `thrown` pending.  At line 35
\* the yield is inside `try ... except ApiException`: an ApiException thrown
\* by the body is taken for a failed lookup.  Should the generator then yield
\* again, contextlib raises RuntimeError and the generator is closed, which
\* runs its finally block.
secret_exit(m, pos, data, thrown) ==
    IF pos = "found"
    THEN IF thrown = "ApiException"
         THEN UNION { IF r.st = "created"
                         THEN { [st |-> "RuntimeError", m |-> d.m]
                                : d \in delete_namespaced_secret(r.m) }
                         ELSE {r}
                      : r \in secret_absent(m, data) }
         ELSE {[st |-> thrown, m |-> m]}
    ELSE { [st |-> IF d.ok THEN thrown ELSE "ApiException", m |-> d.m]
           : d \in delete_namespaced_secret(m) }

\* --------------------------------------------------- the scopes, as used
\* with spawner.secret(...) / with spawner.stateful_set(...): body
NoScope == [kind |-> None, name |-> None, nvol |-> 0, data |-> None, pos |-> None]
NoOut == [body |-> None, st |-> None]

\* A scope on its own meets any failure: more are left than it issues calls.
ScopeFaults == MaxPvc + 3
M0 == [cl |-> cluster, log |-> <<>>, left |-> ScopeFaults]
M == [cl |-> cluster, log |-> hlog, left |-> ScopeFaults]

Opened(sc, r) ==
    /\ UNCHANGED <<cvars, wvars, rvars, cli>>
    /\ cluster' = r.m.cl
    /\ hlog' = r.m.log
    /\ hpre' = cluster
    /\ IF r.st \in {"found", "created", "yield"}
          THEN /\ hpc' = "body"
               /\ scope' = [sc EXCEPT !.pos = r.st]
               /\ hout' = NoOut
          ELSE /\ hpc' = "closed"
               /\ scope' = sc
               /\ hout' = [body |-> None, st |-> r.st]

OpenSecret ==
    /\ hpc = "idle"
    /\ \E data \in {None, "dockerconfig"} :
         \E r \in secret_enter(M0, data) :
            Opened([NoScope EXCEPT !.kind = "secret", !.data = data], r)

OpenStatefulSet ==
    /\ hpc = "idle"
    /\ \E name \in StsNames, nvol \in 0..MaxPvc :
         \E r \in stateful_set_enter(M0, name, nvol) :
            Opened([NoScope EXCEPT !.kind = "stateful_set", !.name = name,
                                   !.nvol = nvol], r)

OpenService ==
    /\ hpc = "idle"
    /\ \E r \in service_enter(M0) :
         Opened([NoScope EXCEPT !.kind = "service"], r)

Closed(how, r) ==
    /\ UNCHANGED <<cvars, wvars, rvars, cli>>
    /\ cluster' = r.m.cl
    /\ hlog' = r.m.log
    /\ hpc' = "closed"
    /\ hout' = [body |-> how, st |-> r.st]
    /\ UNCHANGED <<scope, hpre>>

LeaveSecret ==
    /\ hpc = "body"
    /\ scope.kind = "secret"
    /\ \E how \in BodyExits :
         \E r \in secret_exit(M, scope.pos, scope.data, Thrown(how)) :
            Closed(how, r)

LeaveStatefulSet ==
    /\ hpc = "body"
    /\ scope.kind = "stateful_set"
    /\ \E how \in BodyExits :
         \E r \in stateful_set_exit(M, scope.name, Thrown(how)) :
            Closed(how, r)

LeaveService ==
    /\ hpc = "body"
    /\ scope.kind = "service"
    /\ \E how \in BodyExits :
         \E r \in service_exit(M, Thrown(how)) :
            Closed(how, r)

\* The next scope is opened on the cluster the last one left behind.
Again ==
    /\ hpc = "closed"
    /\ hpc' = "idle"
    /\ scope' = NoScope
    /\ hlog' = <<>>
    /\ hout' = NoOut
    /\ hpre' = cluster
    /\ UNCHANGED <<cluster, cvars, wvars, rvars, cli>>

\* Python values where None and a string must be told apart.
PyNone == [py |-> "NoneType", v |-> ""]
PyStr(v) == [py |-> "str", v |-> v]

\* main is not what built the container.
NoOptions == [registry_server |-> PyNone, registry_username |-> PyNone,
              registry_password |-> PyNone]
MainOff == cli = NoOptions

\* No module is being loaded and nothing is discovered.
RegistryOff ==
    /\ rpc = "off"
    /\ types = <<>> /\ heap = <<>> /\ reglog = <<>>
    /\ selected = <<>> /\ found = <<>> /\ rexc = None

\* No call of wait_for is in progress.
WaitOff ==
    /\ wpc = "off"
    /\ timeout = 0 /\ interval = 0 /\ start_time = 0 /\ now = 0
    /\ return_value = None /\ wlog = <<>> /\ wexc = None

\* No run of Core is in progress.
CoreIdle ==
    /\ pc = "idle"
    /\ idx = 0 /\ nchecks = 0 /\ registered = 0 /\ ck = 0
    /\ checks = <<>> /\ section_result = Nothing /\ yielded = <<>> /\ report = Nothing
    /\ dep = [init |-> {}, spawner |-> 0, secret_pos |-> None]
    /\ registry_data = "" /\ exc = None /\ faults = 0 /\ events = <<>>

SpawnerInit ==
    /\ cluster \in Clusters
    /\ CoreIdle
    /\ WaitOff
    /\ RegistryOff
    /\ MainOff
    /\ hpc = "idle"
    /\ scope = NoScope
    /\ hlog = <<>>
    /\ hpre = cluster
    /\ hout = NoOut

SpawnerNext ==
    \/ OpenSecret
    \/ LeaveSecret
    \/ OpenStatefulSet
    \/ LeaveStatefulSet
    \/ OpenService
    \/ LeaveService
    \/ Again

SpawnerSpec == SpawnerInit /\ [][SpawnerNext]_vars

\* -------------------------------------------------------- dependencies.py
\* The container's state d: the initialized Resource providers, the cached
\* Singleton (the section in whose processing the Spawner was created, 0 for
\* none) and where the generator behind registry_secret is suspended.
\* Every operator gives the set of outcomes [ok, d, m]; ok = FALSE is an
\* exception reaching the caller, with what was changed before it.
ResourceKeys == {"kubernetes_client", "registry_secret", "single_pod",
                 "pod_on_each_node", "pod_with_volume_on_each_node"}
PodKeys == {"single_pod", "pod_on_each_node", "pod_with_volume_on_each_node"}

NoDep == [init |-> {}, spawner |-> 0, secret_pos |-> None]

Ok(d, m) == [ok |-> TRUE, d |-> d, m |-> m]
Raise(d, m) == [ok |-> FALSE, d |-> d, m |-> m]
Then(S, F(_)) == UNION { IF r.ok THEN F(r) ELSE {r} : r \in S }

\* A step outside the modelled API surface that the environment makes fail.
Fault(d, m) == IF m.left > 0 THEN {Raise(d, Failing(m))} ELSE {}

\* get_kubernetes_client up to its yield: loading the configuration or the
\* /readyz call may fail, and then nothing is initialized.
kubernetes_client(d, m) ==
    IF "kubernetes_client" \in d.init THEN {Ok(d, m)}
    ELSE Fault(d, m)
         \cup {Ok([d EXCEPT !.init = @ \cup {"kubernetes_client"}], m)}

\* providers.Singleton(Spawner, api_client=kubernetes_client): the instance
\* is built once and cached until reset_singletons.
spawner(d, m, i) ==
    IF d.spawner # 0 THEN {Ok(d, m)}
    ELSE Then(kubernetes_client(d, m),
              LAMBDA r : {Ok([r.d EXCEPT !.spawner = i], r.m)})

\* registry_secret(spawner, data), lines 110-113.
docker_config(data) == IF data = "" THEN None ELSE data

registry_secret(d, m, i) ==
    IF "registry_secret" \in d.init THEN {Ok(d, m)}
    ELSE Then(spawner(d, m, i),
              LAMBDA r :
                { IF e.st \in {"found", "created"}
                     THEN Ok([r.d EXCEPT !.init = @ \cup {"registry_secret"},
                                         !.secret_pos = e.st], e.m)
                     ELSE Raise(r.d, e.m)
                  : e \in secret_enter(r.m, docker_config(registry_data)) })

\* The workload a pod resource creates, and its volume claims.
PodName(key) == IF key = "single_pod" THEN "single-pod" ELSE "pod-on-each-node"
PodVolumes(key) == IF key = "pod_with_volume_on_each_node" THEN MaxPvc ELSE 0

\* spawn_single_pod (lines 85-107) and spawn_pod_on_each_node (lines 44-82)
\* up to their yield, the arguments resolved: list_node may fail; the
\* workload scope is entered, and a wait_for that fails (a timeout, a failing
\* read) leaves the scope with its error.
spawn_pod(key, d, m) ==
    (IF key = "single_pod" THEN {} ELSE Fault(d, m))
    \cup UNION {
        IF e.st = "yield"
           THEN {Ok([d EXCEPT !.init = @ \cup {key}], e.m)}
                \cup (IF e.m.left > 0
                         THEN { Raise(d, x.m)
                                : x \in stateful_set_exit(Failing(e.m), PodName(key),
                                                          "Error") }
                         ELSE {})
           ELSE {Raise(d, e.m)}
        : e \in stateful_set_enter(m, PodName(key), PodVolumes(key)) }

\* providers.Resource(spawn_..., spawner=spawner, image=..., secret=registry_secret)
pod(key, d, m, i) ==
    IF key \in d.init THEN {Ok(d, m)}
    ELSE Then(spawner(d, m, i),
              LAMBDA r : Then(registry_secret(r.d, r.m, i),
                              LAMBDA q : spawn_pod(key, q.d, q.m)))

\* provider(): what wiring calls for a Provide[...] attribute.  The
\* Dependency providers (phase, offline, ...) hand out a configured value.
provide(key, d, m, i) ==
    CASE key = "kubernetes_client" -> kubernetes_client(d, m)
      [] key = "spawner" -> spawner(d, m, i)
      [] key = "registry_secret" -> registry_secret(d, m, i)
      [] key \in PodKeys -> pod(key, d, m, i)
      [] OTHER -> {Ok(d, m)}

\* Resource.shutdown: the generator is resumed after its yield and runs to
\* its end; an exception of its teardown leaves the resource initialized.
shutdown(key, d, m) ==
    LET ends == CASE key = "kubernetes_client" -> {[st |-> "none", m |-> m]}
                  [] key = "registry_secret" ->
                        secret_exit(m, d.secret_pos, docker_config(registry_data), "none")
                  [] OTHER -> stateful_set_exit(m, PodName(key), "none")
    IN  { IF e.st = "none"
             THEN Ok([d EXCEPT !.init = @ \ {key},
                               !.secret_pos = IF key = "registry_secret"
                                                 THEN None ELSE @], e.m)
             ELSE Raise(d, e.m)
          : e \in ends }

\* A release that shuts nothing down.
shutdown_resources_nothing(d, m) == {Ok(d, m)}

\* Container.shutdown_resources: every initialized resource is shut down;
\* the first teardown that raises ends it.
RECURSIVE shutdown_resources(_, _)
shutdown_resources(d, m) ==
    IF d.init = {} THEN {Ok(d, m)}
    ELSE UNION { Then(shutdown(key, d, m),
                      LAMBDA r : shutdown_resources(r.d, r.m))
                 : key \in d.init }

\* Container.reset_singletons: the cached instance is dropped.
reset_singletons(d) == [d EXCEPT !.spawner = 0]

\* The Provide[...] attributes of the check classes, in the order wiring
\* visits them (inspect.getmembers: by attribute name).
MockCheck == <<>>
KubernetesVersion == <<"kubernetes_client">>
PagerDutyAccess == <<"kubernetes_client", "maintenance_type", "offline", "single_pod">>
RegistryAccess == <<"kubernetes_client", "phase", "registry_secret",
                    "registry_server", "spawner">>
IONotifyMaxUserWatches == <<"kubernetes_client", "pod_on_each_node">>
PVCPerformance == <<"kubernetes_client", "requirements",
                    "pod_with_volume_on_each_node">>
CheckClasses == {MockCheck, KubernetesVersion, PagerDutyAccess, RegistryAccess,
                 IONotifyMaxUserWatches, PVCPerformance}

\* Container.wire(modules): each class in turn, each marker in turn.
RECURSIVE wire_class(_, _, _, _, _)
wire_class(markers, a, d, m, i) ==
    IF a > Len(markers) THEN {Ok(d, m)}
    ELSE Then(provide(markers[a], d, m, i),
              LAMBDA r : wire_class(markers, a + 1, r.d, r.m, i))

RECURSIVE wire(_, _, _, _, _)
wire(classes, k, d, m, i) ==
    IF k > Len(classes) THEN {Ok(d, m)}
    ELSE Then(wire_class(classes[k], 1, d, m, i),
              LAMBDA r : wire(classes, k + 1, r.d, r.m, i))

\* ------------------------------------------------------ schema.py, core.py
\* schema.CheckResult(result, measured, expected, major_problem)
CheckResult(result, measured, expected, major_problem) ==
    [result |-> result, measured |-> measured, expected |-> expected,
     major_problem |-> major_problem]

\* The named problems checks report (AbstractCheck.major_problem).
Problems == {[text |-> "problem", n |-> 1], [text |-> "problem", n |-> 2]}

\* major_problem giving a result that passes.
major_problem_passes(problem) == CheckResult(TRUE, "", "", problem)

\* AbstractCheck.major_problem (lines 64-71)
major_problem(problem) == CheckResult(FALSE, "", "", problem)

\* What perform_check can do: return a result, return nothing (None), or
\* raise (Raises).
PerformOutcomes ==
    {CheckResult(TRUE, "measured", "expected", NoProblem),
     CheckResult(FALSE, "measured", "expected", NoProblem)}
    \cup {major_problem(p) : p \in Problems}
    \cup {Nothing, Raises}

\* The name and description attributes of the classes.
CheckName(i, j) == <<"check", i, j>>
CheckDescription(i, j) == <<"description of check", i, j>>
SectionName(i) == i
SectionDescription(i) == <<"description of section", i>>

\* generate_report with a check that returned nothing reported as failed.
check_generate_report_skip_fails(i, j, outcome) ==
    [name |-> CheckName(i, j), description |-> CheckDescription(i, j),
     check |-> CASE outcome = Raises ->
                       CheckResult(FALSE, "Internal error", "Unknown", NoProblem)
                 [] outcome = Nothing -> CheckResult(FALSE, "", "", NoProblem)
                 [] OTHER -> outcome]

\* generate_report with the crash of a check taken for a skip.
check_generate_report_crash_skips(i, j, outcome) ==
    IF outcome \in {Nothing, Raises} THEN Nothing
    ELSE [name |-> CheckName(i, j), description |-> CheckDescription(i, j),
          check |-> outcome]

\* AbstractCheck.generate_report (lines 73-89) for check j of section i whose
\* perform_check did `outcome`: a schema.Check, or None (Nothing) for a skip.
check_generate_report(i, j, outcome) ==
    LET check_result == IF outcome = Raises
                           THEN CheckResult(FALSE, "Internal error", "Unknown", NoProblem)
                           ELSE outcome
    IN  IF check_result = Nothing THEN Nothing
        ELSE [name |-> CheckName(i, j), description |-> CheckDescription(i, j),
              check |-> check_result]

\* sorted(list(set(...))) over fault strings: "Failed to provision ..." sorts
\* before "problem ..." (upper case first), equal texts by their number.
FaultLess(f, g) ==
    IF f.text = g.text THEN f.n < g.n
    ELSE f.text = "Failed to provision resources for section"

RECURSIVE sorted(_)
sorted(S) ==
    IF S = {} THEN <<>>
    ELSE LET least == CHOOSE f \in S : \A g \in S \ {f} : FaultLess(f, g)
         IN  <<least>> \o sorted(S \ {least})

\* all() taken for any().
All_some(bools) == \E k \in 1..Len(bools) : bools[k]

\* all(...) over a list of booleans
All(bools) == \A k \in 1..Len(bools) : bools[k]

\* The faults of the records as they come, neither sorted nor made unique.
section_extract_major_problems_as_met(cs) ==
    LET faults_met == SelectSeq(cs, LAMBDA c : c.check.major_problem # NoProblem)
    IN  [k \in 1..Len(faults_met) |-> faults_met[k].check.major_problem]

\* Section._extract_major_problems (lines 136-147)
section_extract_major_problems(cs) ==
    sorted({cs[k].check.major_problem : k \in {k \in 1..Len(cs) :
                                          cs[k].check.major_problem # NoProblem}})

\* failed_report without the fault.
failed_report_no_fault(i, problem) ==
    [name |-> SectionName(i), description |-> SectionDescription(i),
     result |-> FALSE, checks |-> <<>>, major_problems |-> <<>>]

\* Section.failed_report (lines 149-156)
failed_report(i, problem) ==
    [name |-> SectionName(i), description |-> SectionDescription(i),
     result |-> FALSE, checks |-> <<>>, major_problems |-> <<problem>>]

ProvisionFault(i) ==
    [text |-> "Failed to provision resources for section", n |-> SectionName(i)]

\* Section.generate_report with a record for a section without records.
section_generate_report_empty_record(i, cs) ==
    [name |-> SectionName(i), description |-> SectionDescription(i),
     result |-> All([k \in 1..Len(cs) |-> cs[k].check.result]),
     checks |-> cs,
     major_problems |-> section_extract_major_problems(cs)]

\* Section.generate_report (lines 161-179), given list(self.run_all_checks())
section_generate_report(i, cs) ==
    IF cs = <<>> THEN Nothing
    ELSE [name |-> SectionName(i), description |-> SectionDescription(i),
          result |-> All([k \in 1..Len(cs) |-> cs[k].check.result]),
          checks |-> cs,
          major_problems |-> section_extract_major_problems(cs)]

\* The fault lists of the sections chained, neither sorted nor made unique.
RECURSIVE core_extract_major_problems_chained(_)
core_extract_major_problems_chained(sections) ==
    IF sections = <<>> THEN <<>>
    ELSE Head(sections).major_problems
         \o core_extract_major_problems_chained(Tail(sections))

\* Core._extract_major_problems (lines 224-228)
core_extract_major_problems(sections) ==
    sorted(UNION { {sections[k].major_problems[a] :
                      a \in 1..Len(sections[k].major_problems)}
                   : k \in 1..Len(sections) })

\* generate_report with a run that yielded no record reported as failed.
core_generate_report_empty_fails(sections) ==
    [result |-> sections # <<>> /\ All([k \in 1..Len(sections) |-> sections[k].result]),
     sections |-> sections,
     major_problems |-> core_extract_major_problems(sections)]

\* Core.generate_report (lines 233-238), given list(self.run_all_sections())
core_generate_report(sections) ==
    [result |-> All([k \in 1..Len(sections) |-> sections[k].result]),
     sections |-> sections,
     major_problems |-> core_extract_major_problems(sections)]

\* ------------------------------------------------- Core.run_all_sections
\* One iteration of the loop of lines 200-222 for section idx, step by step.
\* A yield hands the record to list() in Core.generate_report, which resumes
\* the generator at once, so the finally block runs before the next section.
ClassLists(n) == [1..n -> CheckClasses]

\* The cluster as the run finds it, and the failures it may still meet.
Mc == [cl |-> cluster, log |-> <<>>, left |-> MaxFaults - faults]

\* self.dependencies.wire([section_class]) (line 202): the section's own
\* Provide[...] attributes (the configured phase) are resolved; that raises
\* when the container was not given the value.
Bind ==
    /\ pc = "bind"
    /\ events' = Append(events, <<"bind", idx>>)
    /\ \/ pc' = "skip" /\ exc' = exc
       \/ pc' = "release" /\ exc' = "Error"
    /\ UNCHANGED <<cluster, hvars, wvars, rvars, cli, idx, nchecks, registered, ck, checks,
                   section_result, yielded, report, dep, registry_data, faults>>

\* The step of lines 203-205 with the `continue` of a skipped section going
\* to the next section past the finally block.
Skip_past_finally ==
    /\ pc = "skip"
    /\ \/ /\ pc' = "provision" /\ exc' = exc /\ idx' = idx
          /\ events' = Append(events, <<"skip", idx, "false">>)
       \/ /\ exc' = exc
          /\ events' = Append(events, <<"skip", idx, "true">>)
          /\ \/ idx < MaxSections /\ idx' = idx + 1 /\ pc' = "bind"
             \/ idx' = idx /\ pc' = "aggregate"
       \/ /\ pc' = "release" /\ exc' = "Error" /\ idx' = idx
          /\ events' = Append(events, <<"skip", idx, "raises">>)
    /\ UNCHANGED <<cluster, hvars, wvars, rvars, cli, nchecks, registered, ck, checks,
                   section_result, yielded, report, dep, registry_data, faults>>

\* The step of lines 203-205 with a section that asks to be skipped
\* provisioned all the same.
Skip_provisions_anyway ==
    /\ pc = "skip"
    /\ \E did \in {"false", "true", "raises"} :
         /\ events' = Append(events, <<"skip", idx, did>>)
         /\ IF did = "raises"
               THEN pc' = "release" /\ exc' = "Error"
               ELSE pc' = "provision" /\ exc' = exc
    /\ UNCHANGED <<cluster, hvars, wvars, rvars, cli, idx, nchecks, registered, ck, checks,
                   section_result, yielded, report, dep, registry_data, faults>>

\* section = section_class(console=...); section.skip() (lines 203-205)
Skip ==
    /\ pc = "skip"
    /\ \E did \in {"false", "true", "raises"} :
         /\ events' = Append(events, <<"skip", idx, did>>)
         /\ CASE did = "false" -> pc' = "provision" /\ exc' = exc
              [] did = "true" -> pc' = "release" /\ exc' = exc      \* continue
              [] did = "raises" -> pc' = "release" /\ exc' = "Error"
                                   \* the constructor or skip() raises
    /\ UNCHANGED <<cluster, hvars, wvars, rvars, cli, idx, nchecks, registered, ck, checks,
                   section_result, yielded, report, dep, registry_data, faults>>

\* self.dependencies.wire(section_class.checks) and its except clause
\* (lines 206-215); on success the call reset_singletons() of line 216, which
\* resets, as leaving its with block does again.  section_class.checks is
\* any list of check classes the run's total allows.
Provision ==
    /\ pc = "provision"
    /\ \E n \in 0..(MaxRunChecks - registered) : \E classes \in ClassLists(n) :
         \E r \in wire(classes, 1, dep, Mc, idx) :
            /\ nchecks' = n
            /\ registered' = registered + n
            /\ events' = Append(events, <<"provision", idx, r.ok,
                                          ~r.ok /\ r.d.init # {}>>)
            /\ cluster' = r.m.cl
            /\ faults' = MaxFaults - r.m.left
            /\ IF r.ok
                  THEN /\ dep' = reset_singletons(r.d)
                       /\ pc' = "check"
                       /\ ck' = 1
                       /\ yielded' = yielded
                  ELSE /\ dep' = r.d
                       /\ pc' = "release"
                       /\ ck' = ck
                       /\ yielded' = Append(yielded,
                                            failed_report(idx, ProvisionFault(idx)))
    /\ UNCHANGED <<hvars, wvars, rvars, cli, idx, checks, section_result, report,
                   registry_data, exc>>

\* The turn of the loop with a skipped check ending it (return for continue).
RunCheck_skip_ends_loop ==
    /\ pc = "check"
    /\ ck <= nchecks
    /\ \E outcome \in PerformOutcomes :
         LET check_result == check_generate_report(idx, ck, outcome)
         IN  /\ checks' = IF check_result = Nothing THEN checks
                          ELSE Append(checks, check_result)
             /\ events' = Append(events, <<"check", idx, ck, outcome>>)
             /\ ck' = IF check_result = Nothing THEN nchecks + 1 ELSE ck + 1
    /\ UNCHANGED <<cluster, hvars, wvars, rvars, cli, pc, idx, nchecks, registered,
                   section_result, yielded, report, dep, registry_data, exc, faults>>

\* Section.run_all_checks, one turn of its loop (lines 121-126)
RunCheck ==
    /\ pc = "check"
    /\ ck <= nchecks
    /\ \E outcome \in PerformOutcomes :
         LET check_result == check_generate_report(idx, ck, outcome)
         IN  /\ checks' = IF check_result = Nothing THEN checks
                          ELSE Append(checks, check_result)
             /\ events' = Append(events, <<"check", idx, ck, outcome>>)
    /\ ck' = ck + 1
    /\ UNCHANGED <<cluster, hvars, wvars, rvars, cli, pc, idx, nchecks, registered,
                   section_result, yielded,
                   report, dep, registry_data, exc, faults>>

\* section.generate_report() returns into run_all_sections (lines 217-220)
SectionReport ==
    /\ pc = "check"
    /\ idx > 0
    /\ ck > nchecks
    /\ section_result' = section_generate_report(idx, checks)
    /\ dep' = reset_singletons(dep)
    /\ yielded' = IF section_result' = Nothing THEN yielded
                  ELSE Append(yielded, section_result')
    /\ pc' = "release"
    /\ UNCHANGED <<cluster, hvars, wvars, rvars, cli, idx, nchecks, registered, ck, checks, report,
                   registry_data, exc, faults, events>>

\* Section.generate_report called on its own, as the tests do
SectionReturn ==
    /\ pc = "check"
    /\ idx = 0
    /\ ck > nchecks
    /\ section_result' = section_generate_report(idx, checks)
    /\ pc' = "returned"
    /\ UNCHANGED <<cluster, hvars, wvars, rvars, cli, idx, nchecks, registered, ck, checks,
                   yielded, report,
                   dep, registry_data, exc, faults, events>>

\* finally: self.dependencies.shutdown_resources() (lines 221-222), and then
\* the exception leaving the generator or the for statement of line 200
\* asking self.sections for its next element: there is one, or the list has
\* ended and so does the generator.
Release ==
    /\ pc = "release"
    /\ events' = Append(events, <<"release", idx>>)
    /\ \E r \in shutdown_resources(dep, Mc) :
         /\ dep' = r.d
         /\ cluster' = r.m.cl
         /\ faults' = MaxFaults - r.m.left
         /\ IF ~r.ok
               THEN /\ pc' = "raised" /\ exc' = "ApiException"
                    /\ UNCHANGED <<idx, nchecks, ck, checks, section_result>>
            ELSE IF exc # None
               THEN /\ pc' = "raised" /\ exc' = exc
                    /\ UNCHANGED <<idx, nchecks, ck, checks, section_result>>
            ELSE /\ exc' = exc
                 /\ nchecks' = 0 /\ ck' = 0 /\ checks' = <<>>
                 /\ section_result' = Nothing
                 /\ \/ idx < MaxSections /\ idx' = idx + 1 /\ pc' = "bind"
                    \/ idx' = idx /\ pc' = "aggregate"
    /\ UNCHANGED <<hvars, wvars, rvars, cli, registered, yielded, report, registry_data>>

\* Core.generate_report after list(self.run_all_sections()) (lines 233-238)
Aggregate ==
    /\ pc = "aggregate"
    /\ report' = core_generate_report(yielded)
    /\ pc' = "done"
    /\ UNCHANGED <<cluster, hvars, wvars, rvars, cli, idx, nchecks, registered, ck, checks,
                   section_result,
                   yielded, dep, registry_data, exc, faults, events>>

HarnessOff ==
    /\ hpc = "off" /\ scope = NoScope /\ hlog = <<>> /\ hout = NoOut
    /\ hpre = cluster

\* Core(sections, dependencies).generate_report() on a cluster that holds the
\* registry secret or not, with registry credentials configured or not.  The
\* list of up to MaxSections sections is met as the loop walks it.
Init ==
    /\ cluster \in [secret : BOOLEAN, svc : {FALSE}, sts : {{}}, pvcs : {{}}]
    /\ HarnessOff
    /\ WaitOff
    /\ RegistryOff
    /\ MainOff
    /\ registry_data \in {"", "auths"}
    /\ \/ idx = 0 /\ pc = "aggregate"      \* self.sections is empty
       \/ idx = 1 /\ pc = "bind"
    /\ nchecks = 0 /\ registered = 0 /\ ck = 0 /\ checks = <<>>
    /\ section_result = Nothing /\ yielded = <<>> /\ report = Nothing
    /\ dep = NoDep
    /\ exc = None
    /\ faults = 0
    /\ events = <<>>

Next ==
    \/ Bind
    \/ Skip
    \/ Provision
    \/ RunCheck
    \/ SectionReport
    \/ Release
    \/ Aggregate

Spec == Init /\ [][Next]_vars

\* Section().generate_report() of a section with up to MaxChecks checks.
SectionInit ==
    /\ cluster = [secret |-> FALSE, svc |-> FALSE, sts |-> {}, pvcs |-> {}]
    /\ HarnessOff
    /\ WaitOff
    /\ RegistryOff
    /\ MainOff
    /\ registry_data = ""
    /\ idx = 0
    /\ pc = "check"
    /\ nchecks \in 0..MaxChecks
    /\ registered = nchecks
    /\ ck = 1 /\ checks = <<>>
    /\ section_result = Nothing /\ yielded = <<>> /\ report = Nothing
    /\ dep = NoDep
    /\ exc = None
    /\ faults = 0
    /\ events = <<>>

SectionNext ==
    \/ RunCheck
    \/ SectionReturn

SectionSpec == SectionInit /\ [][SectionNext]_vars

\* ---------------------------------------------------------- util.wait_for
\* What condition() can return: nothing (None), an empty value, or a value.
\* It can also raise, as the readiness probes of dependencies.py do when
\* their read fails.
WaitValues == {None, "", "stateful_set 1", "stateful_set 2"}
Truthy(v) == v \notin {None, ""}

\* The loop test giving up when the next sleep would pass the timeout.
WaitTest_gives_up_early ==
    /\ wpc = "test"
    /\ IF now + interval - start_time < timeout
          THEN wpc' = "condition" /\ wexc' = wexc
          ELSE wpc' = "raised" /\ wexc' = "TimeoutError"
    /\ UNCHANGED <<cluster, hvars, cvars, rvars, cli, timeout, interval, start_time, now,
                   return_value, wlog>>

\* The loop testing the clock only after a first turn.
WaitTest_after_first_turn ==
    /\ wpc = "test"
    /\ IF wlog = <<>> \/ now - start_time < timeout
          THEN wpc' = "condition" /\ wexc' = wexc
          ELSE wpc' = "raised" /\ wexc' = "TimeoutError"
    /\ UNCHANGED <<cluster, hvars, cvars, rvars, cli, timeout, interval, start_time, now,
                   return_value, wlog>>

\* while time.perf_counter() - start_time < timeout (line 33), and line 37
WaitTest ==
    /\ wpc = "test"
    /\ IF now - start_time < timeout
          THEN wpc' = "condition" /\ wexc' = wexc
          ELSE wpc' = "raised" /\ wexc' = "TimeoutError"
    /\ UNCHANGED <<cluster, hvars, cvars, rvars, cli, timeout, interval, start_time, now,
                   return_value, wlog>>

\* The turn of the loop sleeping once more before it returns the value.
WaitCondition_returns_late ==
    /\ wpc = "condition"
    /\ \/ \E v \in WaitValues :
            /\ return_value' = v
            /\ wlog' = IF Truthy(v)
                          THEN wlog \o <<<<"condition", v>>, <<"sleep", interval>>>>
                          ELSE Append(wlog, <<"condition", v>>)
            /\ wpc' = IF Truthy(v) THEN "returned" ELSE "sleep"
            /\ wexc' = wexc
       \/ /\ wlog' = Append(wlog, <<"raise", "ApiException">>)
          /\ wpc' = "raised"
          /\ wexc' = "ApiException"
          /\ return_value' = return_value
    /\ UNCHANGED <<cluster, hvars, cvars, rvars, cli, timeout, interval, start_time, now>>

\* if return_value := condition(): return return_value (lines 34-35)
WaitCondition ==
    /\ wpc = "condition"
    /\ \/ \E v \in WaitValues :
            /\ return_value' = v
            /\ wlog' = Append(wlog, <<"condition", v>>)
            /\ wpc' = IF Truthy(v) THEN "returned" ELSE "sleep"
            /\ wexc' = wexc
       \/ /\ wlog' = Append(wlog, <<"raise", "ApiException">>)
          /\ wpc' = "raised"
          /\ wexc' = "ApiException"
          /\ return_value' = return_value
    /\ UNCHANGED <<cluster, hvars, cvars, rvars, cli, timeout, interval, start_time, now>>

\* time.sleep(interval) (line 36): the clock advances by the interval.
WaitSleep ==
    /\ wpc = "sleep"
    /\ now' = now + interval
    /\ wlog' = Append(wlog, <<"sleep", interval>>)
    /\ wpc' = "test"
    /\ UNCHANGED <<cluster, hvars, cvars, rvars, cli, timeout, interval, start_time,
                   return_value, wexc>>

\* wait_for(condition, timeout, interval) is called: start_time is read
\* (line 32).  The interval is a positive number of seconds.
WaitInit ==
    /\ cluster = [secret |-> FALSE, svc |-> FALSE, sts |-> {}, pvcs |-> {}]
    /\ HarnessOff
    /\ CoreIdle
    /\ RegistryOff
    /\ MainOff
    /\ timeout \in -1..MaxTimeout
    /\ interval \in 1..MaxInterval
    /\ now \in 0..1
    /\ start_time = now
    /\ wpc = "test"
    /\ return_value = None /\ wlog = <<>> /\ wexc = None

WaitNext ==
    \/ WaitTest
    \/ WaitCondition
    \/ WaitSleep

\* The call runs in one thread that is never held back.
WaitSpec == WaitInit /\ [][WaitNext]_vars /\ WF_vars(WaitNext)

\* ------------------------------------------------------------- main.py
\* str(value): a string is itself, None is the text "None".
str(value) == IF value = PyNone THEN PyStr("None") ELSE value

\* util.encode_registry_secret (lines 14-28): "" without credentials, else
\* the encoded document, which tells its three entries apart.
encode_registry_secret(registry_server, registry_username, registry_password) ==
    IF registry_username = PyNone /\ registry_password = PyNone THEN ""
    ELSE "auths " \o registry_server.v \o " " \o registry_username.v
                  \o " " \o registry_password.v

\* What the options may be: the server has a default, user name and
\* password default to None and may be given, empty too (main.py:69-83).
Options == [registry_server : {PyStr("piwikpro.azurecr.io")},
            registry_username : {PyNone, PyStr(""), PyStr("user")},
            registry_password : {PyNone, PyStr(""), PyStr("password")}]

\* main (lines 134-146): Dependencies(..., registry_server=str(...),
\* registry_username=str(...), registry_password=str(...)); the container
\* computes registry_secret_data from them (dependencies.py:131-136).
Main ==
    /\ hpc = "main"
    /\ hpc' = "idle"
    /\ registry_data' = encode_registry_secret(str(cli.registry_server),
                                               str(cli.registry_username),
                                               str(cli.registry_password))
    /\ UNCHANGED <<cluster, scope, hlog, hpre, hout, pc, idx, nchecks, registered, ck,
                   checks, section_result, yielded, report, dep, exc, faults, events,
                   wvars, rvars, cli>>

\* A check of the run asks for registry_secret (dependencies.py:110-113).
ProvideRegistrySecret ==
    /\ hpc = "idle"
    /\ \E r \in secret_enter(M0, docker_config(registry_data)) :
         Opened([NoScope EXCEPT !.kind = "secret",
                                !.data = docker_config(registry_data)], r)

MainInit ==
    /\ cluster \in {cl \in Clusters : ~cl.svc /\ cl.sts = {} /\ cl.pvcs = {}}
    /\ CoreIdle
    /\ WaitOff
    /\ RegistryOff
    /\ cli \in Options
    /\ hpc = "main"
    /\ scope = NoScope
    /\ hlog = <<>>
    /\ hpre = cluster
    /\ hout = NoOut

MainNext ==
    \/ Main
    \/ ProvideRegistrySecret
    \/ LeaveSecret

MainSpec == MainInit /\ [][MainNext]_vars

\* ------------------------------ checks that spawn a workload of their own
\* util.wait_for_pods_ready (lines 48-57): the condition reads the workload
\* until its pods are ready, then the workload is read once more.  A read
\* raises ApiException; pods that never get ready end in wait_for's
\* TimeoutError, a failure of the environment like any other.
read_namespaced_stateful_set(m, name) ==
    ApiCall(m, "read_sts", name, name \in m.cl.sts, m.cl)

wait_for_pods_ready(m, name) ==
    UNION { IF r.ok
               THEN { [st |-> IF q.ok THEN "ready" ELSE "ApiException", m |-> q.m]
                      : q \in read_namespaced_stateful_set(r.m, name) }
                    \cup (IF r.m.left > 0
                             THEN {[st |-> "TimeoutError", m |-> Failing(r.m)]}
                             ELSE {})
               ELSE {[st |-> "ApiException", m |-> r.m]}
            : r \in read_namespaced_stateful_set(m, name) }

\* util.exec_in_pod (lines 60-73): the command's output, or ApiException.
exec_in_pod(m) ==
    {[ok |-> TRUE, out |-> "is a mountpoint", m |-> m],
     [ok |-> TRUE, out |-> "is not a mountpoint", m |-> m]}
    \cup (IF m.left > 0 THEN {[ok |-> FALSE, out |-> "", m |-> Failing(m)]} ELSE {})

Phases == {"pre-contract", "pre-install"}
CannotAccessRegistry == [text |-> "Cannot access registry", n |-> 0]

\* What a perform_check gives: [out, waited, m], out what it returned or
\* Raises, waited how its wait_for_pods_ready ended (None: not reached).
Performed(out, waited, m) == [out |-> out, waited |-> waited, m |-> m]

\* RegistryAccess.perform_check (checks/external_services.py:58-74)
RegistryAccess_perform_check(m, phase) ==
    IF phase = "pre-contract" THEN {Performed(Nothing, None, m)}
    ELSE UNION {
        IF e.st # "yield" THEN {Performed(Raises, None, e.m)}
        ELSE UNION {
            CASE w.st = "ready" ->
                   { Performed(IF x.st = "none"
                                  THEN CheckResult(TRUE, "Yes", "Yes", NoProblem)
                                  ELSE Raises, w.st, x.m)
                     : x \in stateful_set_exit(w.m, "backup-tools", "none") }
              [] w.st = "TimeoutError" ->
                   { Performed(IF x.st = "none" THEN major_problem(CannotAccessRegistry)
                                                ELSE Raises, w.st, x.m)
                     : x \in stateful_set_exit(w.m, "backup-tools", Thrown("return")) }
              [] OTHER ->
                   { Performed(Raises, w.st, x.m)
                     : x \in stateful_set_exit(w.m, "backup-tools", w.st) }
            : w \in wait_for_pods_ready(e.m, "backup-tools") }
        : e \in stateful_set_enter(m, "backup-tools", 0) }

\* RequestingPVC.perform_check (checks/storage.py:28-48)
RequestingPVC_perform_check(m) ==
    UNION {
        IF e.st # "yield" THEN {Performed(Raises, None, e.m)}
        ELSE UNION {
            IF w.st = "ready"
               THEN UNION {
                   IF o.ok
                      THEN { Performed(IF x.st = "none"
                                          THEN LET result == o.out = "is a mountpoint"
                                               IN  CheckResult(result,
                                                               IF result THEN "Yes" ELSE "No",
                                                               "Yes", NoProblem)
                                          ELSE Raises, w.st, x.m)
                             : x \in stateful_set_exit(o.m, "request-pvc", Thrown("return")) }
                      ELSE { Performed(Raises, w.st, x.m)
                             : x \in stateful_set_exit(o.m, "request-pvc", "ApiException") }
                   : o \in exec_in_pod(w.m) }
               ELSE { Performed(Raises, w.st, x.m)
                      : x \in stateful_set_exit(w.m, "request-pvc",
                                                 IF w.st = "TimeoutError" THEN "Error"
                                                 ELSE w.st) }
            : w \in wait_for_pods_ready(e.m, "request-pvc") }
        : e \in stateful_set_enter(m, "request-pvc", 1) }

SpawningChecks == {"RegistryAccess", "RequestingPVC"}

perform_check(class, m, phase) ==
    IF class = "RegistryAccess" THEN RegistryAccess_perform_check(m, phase)
    ELSE RequestingPVC_perform_check(m)

\* check.generate_report() of one of these checks, its attributes wired:
\* scope keeps the class and how the wait ended, hout how perform_check
\* ended, checks the record (none for a skip).
GenerateCheckReport ==
    /\ hpc = "idle"
    /\ \E class \in SpawningChecks, phase \in Phases :
         \E r \in perform_check(class, M0, phase) :
            LET record == check_generate_report(1, 1, r.out)
            IN  /\ cluster' = r.m.cl
                /\ hlog' = r.m.log
                /\ hpre' = cluster
                /\ hpc' = "closed"
                /\ scope' = [NoScope EXCEPT !.kind = "check", !.name = class,
                                            !.pos = r.waited]
                /\ hout' = [body |-> IF r.out = Raises THEN "raise" ELSE "return",
                            st |-> None]
                /\ checks' = IF record = Nothing THEN <<>> ELSE <<record>>
    /\ UNCHANGED <<pc, idx, nchecks, registered, ck, section_result, yielded, report,
                   dep, registry_data, exc, faults, events, wvars, rvars, cli>>

CheckInit ==
    /\ cluster = [secret |-> FALSE, svc |-> FALSE, sts |-> {}, pvcs |-> {}]
    /\ CoreIdle
    /\ WaitOff
    /\ RegistryOff
    /\ MainOff
    /\ hpc = "idle"
    /\ scope = NoScope
    /\ hlog = <<>>
    /\ hpre = cluster
    /\ hout = NoOut

CheckNext ==
    \/ GenerateCheckReport
    \/ Again

CheckSpec == CheckInit /\ [][CheckNext]_vars

\* ------------------------------------------- core.Section as a registry
\* Names are strings, modelled as sequences of characters.  A section type
\* lives in a module of its own; check classes are known by their __name__.
CheckClassNames == {<<"x">>, <<"y">>}
Letters == <<"s", "t", "u", "v">>
ModName(k) == <<Letters[k]>>

\* copy.copy of a class hands back the class itself: classes are copied
\* like atoms (core.py:133, discovery.py:36).
copy(class) == class

\* The list that <type>.checks evaluates to, 0 when the attribute is
\* missing: type 0 is core.Section, which only annotates `checks`.
RECURSIVE Lookup(_, _)
Lookup(ts, c) ==
    IF c = 0 THEN 0
    ELSE IF ts[c].checks # 0 THEN ts[c].checks
    ELSE Lookup(ts, ts[c].base)

ListOf(ts, hp, c) == IF Lookup(ts, c) = 0 THEN <<>> ELSE hp[Lookup(ts, c)]

\* List objects no type refers to any longer are dropped; the others keep
\* their order.
collect(ts, hp) ==
    LET live == {ts[k].checks : k \in 1..Len(ts)} \ {0}
        rank(l) == Cardinality({m \in live : m <= l})
        hp2 == [n \in 1..Cardinality(live) |->
                  hp[CHOOSE l \in live : rank(l) = n]]
    IN  [types |-> [k \in 1..Len(ts) |->
                      [ts[k] EXCEPT !.checks = IF @ = 0 THEN 0 ELSE rank(@)]],
         heap |-> hp2]

\* class <new>(<base>): [checks = <given>], then Section.__init_subclass__
\* (lines 102-108): cls.checks = [], a new list.  `given` is the checks
\* attribute of the class body, if any; `inherited` is what <base>.checks
\* held, `started` what <new>.checks holds when the definition is done.
init_subclass_shares_list(ts, hp, base, given) ==
    [types |-> Append(ts, [base |-> base,
                           checks |-> IF Lookup(ts, base) = 0 THEN Len(hp) + 1
                                      ELSE Lookup(ts, base),
                           given |-> given,
                           inherited |-> ListOf(ts, hp, base),
                           started |-> ListOf(ts, hp, base)]),
     heap |-> IF Lookup(ts, base) = 0 THEN Append(hp, <<>>) ELSE hp]
init_subclass(ts, hp, base, given) ==
    [types |-> Append(ts, [base |-> base, checks |-> Len(hp) + 1,
                           given |-> given,
                           inherited |-> ListOf(ts, hp, base),
                           started |-> <<>>]),
     heap |-> Append(hp, <<>>)]

\* What a class body may give as `checks`.
GivenChecks == {[set |-> FALSE, list |-> <<>>],
                [set |-> TRUE, list |-> <<<<"x">>, <<"y">>>>]}

DefineSection ==
    /\ rpc = "import"
    /\ Len(types) < MaxTypes
    /\ \E base \in 0..Len(types), given \in GivenChecks :
         LET r == init_subclass(types, heap, base, given)
         IN  types' = r.types /\ heap' = r.heap
    /\ rexc' = None
    /\ UNCHANGED <<cluster, hvars, cvars, wvars, cli, rpc, reglog, selected, found>>

\* Section.register (lines 128-134): cls.checks.append(copy(check_class))
register(ts, hp, c, check_class) ==
    IF Lookup(ts, c) = 0
    THEN [exc |-> "AttributeError", heap |-> hp]
    ELSE [exc |-> None,
          heap |-> [hp EXCEPT ![Lookup(ts, c)] = Append(@, copy(check_class))]]

Register ==
    /\ rpc = "import"
    /\ Len(reglog) < MaxRegistered
    /\ \E c \in 0..Len(types), check_class \in CheckClassNames :
         LET r == register(types, heap, c, check_class)
         IN  /\ heap' = r.heap
             /\ rexc' = r.exc
             /\ reglog' = IF r.exc = None THEN Append(reglog, <<c, check_class>>)
                           ELSE reglog
    /\ UNCHANGED <<cluster, hvars, cvars, wvars, cli, rpc, types, selected, found>>

\* ------------------------------------------------------------ discovery.py
\* str.split("."): the pieces between the dots.
RECURSIVE split(_)
split(text) ==
    IF \A i \in 1..Len(text) : text[i] # "."
    THEN <<text>>
    ELSE LET dot == CHOOSE i \in 1..Len(text) :
                       text[i] = "." /\ \A j \in 1..(i - 1) : text[j] # "."
         IN  <<SubSeq(text, 1, dot - 1)>> \o split(SubSeq(text, dot + 1, Len(text)))

\* The lists of at most n elements of S.
RECURSIVE ListsOver(_, _)
ListsOver(S, n) ==
    IF n = 0 THEN {<<>>}
    ELSE LET shorter == ListsOver(S, n - 1)
         IN  shorter \cup {Append(l, e) : l \in {l \in shorter : Len(l) = n - 1},
                                         e \in S}

\* The mapping with no key, and defaultdict(list)'s result[key]: the key gets
\* an empty list when it is new.
NoKeys == [key \in {} |-> <<>>]
touch_clears(result, key) ==
    [k \in DOMAIN result \cup {key} |-> IF k = key THEN <<>> ELSE result[k]]
touch(result, key) ==
    IF key \in DOMAIN result THEN result
    ELSE [k \in DOMAIN result \cup {key} |->
            IF k = key THEN <<>> ELSE result[k]]

\* process_checks_to_find, the loop of lines 57-67 from selector i on.
RECURSIVE process_selectors(_, _, _)
process_selectors(checks_to_find, i, result) ==
    IF i > Len(checks_to_find) THEN [exc |-> None, map |-> result]
    ELSE LET section_check == checks_to_find[i]
             split_value == split(section_check)
         IN  IF Len(split_value) = 1 /\ split_value[1] # <<>>
                THEN process_selectors(checks_to_find, i + 1,
                                       touch(result, section_check))
             ELSE IF /\ Len(split_value) = 2
                     /\ split_value[1] # <<>> /\ split_value[2] # <<>>
                THEN process_selectors(
                        checks_to_find, i + 1,
                        [touch(result, split_value[1])
                           EXCEPT ![split_value[1]] = Append(@, split_value[2])])
             ELSE [exc |-> "ValueError", map |-> NoKeys]

\* process_checks_to_find (lines 46-68); arg is [none, items]: None, or the
\* selectors.
process_checks_to_find(arg) ==
    IF arg.none THEN [exc |-> None, map |-> NoKeys]
    ELSE process_selectors(arg.items, 1, NoKeys)

\* Selectors as a command line may give them: "s", "t", "st", "s.x", "s.y",
\* "t.x", "", ".", "s.", ".x" and "s.x.y".
SelectorStrings == {<<"s">>, <<"t">>, <<"s", "t">>,
                    <<"s", ".", "x">>, <<"s", ".", "y">>, <<"t", ".", "x">>,
                    <<>>, <<".">>, <<"s", ".">>, <<".", "x">>,
                    <<"s", ".", "x", ".", "y">>}

\* process_checks_to_find(checks_to_find), called on its own.
ProcessChecksToFind ==
    /\ rpc = "parse"
    /\ \E arg \in {[none |-> TRUE, items |-> <<>>]}
                   \cup {[none |-> FALSE, items |-> l] :
                            l \in ListsOver(SelectorStrings, MaxSelectors)} :
         LET r == process_checks_to_find(arg)
         IN  /\ selected' = <<arg>>
             /\ found' = <<r>>
             /\ rexc' = r.exc
    /\ UNCHANGED <<cluster, hvars, cvars, wvars, cli, rpc, types, heap, reglog>>

SelectorInit ==
    /\ cluster = [secret |-> FALSE, svc |-> FALSE, sts |-> {}, pvcs |-> {}]
    /\ HarnessOff
    /\ CoreIdle
    /\ WaitOff
    /\ MainOff
    /\ rpc = "parse"
    /\ types = <<>> /\ heap = <<>> /\ reglog = <<>>
    /\ selected = <<>> /\ found = <<>> /\ rexc = None

SelectorNext == ProcessChecksToFind

SelectorSpec == SelectorInit /\ [][SelectorNext]_vars

\* iter_sections (lines 25-43), the loop from module k on; out is
\* [types, heap, sections]: the registry as the loop leaves it and the
\* section types yielded so far.
RECURSIVE iter_sections(_, _, _)
iter_sections(k, checks_to_find, out) ==
    IF k > Len(out.types) THEN out
    ELSE IF checks_to_find # NoKeys /\ ModName(k) \notin DOMAIN checks_to_find
       THEN iter_sections(k + 1, checks_to_find, out)
    ELSE LET section_class == copy(k)
             names == IF checks_to_find = NoKeys THEN <<>>
                      ELSE checks_to_find[ModName(k)]
             filtered_checks ==
                 SelectSeq(ListOf(out.types, out.heap, section_class),
                           LAMBDA check : \E n \in 1..Len(names) : names[n] = check)
         IN  iter_sections(
                k + 1, checks_to_find,
                IF names # <<>>
                   THEN [types |-> [out.types EXCEPT ![section_class].checks =
                                                        Len(out.heap) + 1],
                         heap |-> Append(out.heap, filtered_checks),
                         sections |-> Append(out.sections, section_class)]
                   ELSE [out EXCEPT !.sections = Append(@, section_class)])

\* discover_sections (lines 71-77)
discover_sections(ts, hp, arg) ==
    LET parsed == process_checks_to_find(arg)
    IN  IF parsed.exc # None
           THEN [exc |-> parsed.exc, types |-> ts, heap |-> hp, sections |-> <<>>]
           ELSE LET out == iter_sections(1, parsed.map,
                                         [types |-> ts, heap |-> hp, sections |-> <<>>])
                    kept == collect(out.types, out.heap)
                IN  [exc |-> None, types |-> kept.types, heap |-> kept.heap,
                     sections |-> out.sections]

\* The selectors of a run: nothing, sections and checks that exist, in and
\* out of registration order, a section beside one of its checks, a check
\* that does not exist, and a selector that is not valid.
Given(items) == [none |-> FALSE, items |-> items]
RunArgs == {[none |-> TRUE, items |-> <<>>],
            Given(<<>>),
            Given(<<<<"s">>>>),
            Given(<<<<"s", ".", "x">>>>),
            Given(<<<<"s", ".", "y">>, <<"s", ".", "x">>>>),
            Given(<<<<"s", ".", "x">>, <<"s">>>>),
            Given(<<<<"t", ".", "y">>>>),
            Given(<<<<"s", ".", "z">>>>),
            Given(<<<<"s">>, <<>>>>)}

\* A run: discover_sections(checks, checks_to_find)
Discover ==
    /\ rpc = "run"
    /\ \E arg \in RunArgs :
         LET r == discover_sections(types, heap, arg)
         IN  /\ selected' = <<arg>>
             /\ found' = <<[exc |-> r.exc, sections |-> r.sections]>>
             /\ types' = r.types
             /\ heap' = r.heap
             /\ rexc' = r.exc
    /\ UNCHANGED <<cluster, hvars, cvars, wvars, cli, rpc, reglog>>

\* The modules of a package are loaded: types are defined and checks
\* registered on them.
RegistryInit ==
    /\ cluster = [secret |-> FALSE, svc |-> FALSE, sts |-> {}, pvcs |-> {}]
    /\ HarnessOff
    /\ CoreIdle
    /\ WaitOff
    /\ MainOff
    /\ rpc = "import"
    /\ types = <<>> /\ heap = <<>> /\ reglog = <<>>
    /\ selected = <<>> /\ found = <<>> /\ rexc = None

RegistryNext ==
    \/ DefineSection
    \/ Register

RegistrySpec == RegistryInit /\ [][RegistryNext]_vars

\* A package of two modules, s and t, as its import leaves it: each defines
\* a section type on core.Section and registers checks on it.  Sections are
\* then discovered in it, one run after another in the same process.
Registered(l) == [n \in 1..Len(l) |-> copy(l[n])]

Package(s_checks, t_checks) ==
    [types |-> [k \in 1..2 |->
                  [base |-> 0, checks |-> k,
                   given |-> [set |-> FALSE, list |-> <<>>],
                   inherited |-> <<>>, started |-> <<>>]],
     heap |-> <<Registered(s_checks), Registered(t_checks)>>,
     reglog |-> [n \in 1..Len(s_checks) |-> <<1, s_checks[n]>>]
                \o [n \in 1..Len(t_checks) |-> <<2, t_checks[n]>>]]

DiscoveryInit ==
    /\ cluster = [secret |-> FALSE, svc |-> FALSE, sts |-> {}, pvcs |-> {}]
    /\ HarnessOff
    /\ CoreIdle
    /\ WaitOff
    /\ MainOff
    /\ rpc = "run"
    /\ \E s_checks \in ListsOver(CheckClassNames, MaxRegistered),
          t_checks \in ListsOver(CheckClassNames, MaxRegistered) :
         /\ types = Package(s_checks, t_checks).types
         /\ heap = Package(s_checks, t_checks).heap
         /\ reglog = Package(s_checks, t_checks).reglog
    /\ selected = <<>> /\ found = <<>> /\ rexc = None

DiscoveryNext == Discover

DiscoverySpec == DiscoveryInit /\ [][DiscoveryNext]_vars

\* ------------------------------------------------- reading the run's events
Events == 1..Len(events)
EvOf(kind, i) == {k \in Events : events[k][1] = kind /\ events[k][2] = i}
FailedProvisions == {k \in Events : events[k][1] = "provision" /\ ~events[k][3]}
RunEnded == pc \in {"aggregate", "done", "raised"}

C3_CrashIsInternalError ==
    /\ pc # "raised"
    /\ \A k \in Events :
          (events[k][1] = "check" /\ events[k][4] = Raises)
             => \E a \in 1..Len(checks) :
                   /\ checks[a].name = CheckName(idx, events[k][3])
                   /\ checks[a].description = CheckDescription(idx, events[k][3])
                   /\ checks[a].check = [result |-> FALSE,
                                         measured |-> "Internal error",
                                         expected |-> "Unknown",
                                         major_problem |-> NoProblem]

C3_Witness ==
    /\ pc = "returned"
    /\ Len(events) = 2
    /\ events[1][4] = Raises
    /\ events[2][4] # Raises
    /\ Len(checks) = 2

\* C4: the run of Core.generate_report never ends with an exception.
C4_ErrorsContained == pc # "raised"

\* C5: what a run did is ordered.  The first step is the binding of a
\* section.  A binding is followed by the call of skip() or, when the
\* binding raised, the release of the same section; the call of skip() by
\* the provisioning when it said no, by the release else; a provisioning that
\* succeeded by the checks or the release of its section, one that failed by
\* the release; a check by a later check or the release of its section; a
\* release by the binding of the next section.  So the steps of a section
\* are never interleaved with those of another, the checks of a section
\* run only between its successful provisioning and its release, and the
\* run ends on a release.
Follows(a, b) ==
    CASE a[1] = "bind" -> b[2] = a[2] /\ b[1] \in {"skip", "release"}
      [] a[1] = "skip" -> /\ b[2] = a[2]
                          /\ b[1] = IF a[3] = "false" THEN "provision" ELSE "release"
      [] a[1] = "provision" -> /\ b[2] = a[2]
                               /\ b[1] = "release" \/ (a[3] /\ b[1] = "check")
      [] a[1] = "check" -> /\ b[2] = a[2]
                           /\ b[1] = "release" \/ (b[1] = "check" /\ b[3] > a[3])
      [] a[1] = "release" -> b[1] = "bind" /\ b[2] = a[2] + 1

C5_SectionEventsOrdered ==
    /\ events # <<>> => events[1][1] = "bind"
    /\ \A k \in 1..(Len(events) - 1) : Follows(events[k], events[k + 1])
    /\ (RunEnded /\ events # <<>>) => events[Len(events)][1] = "release"

C5_Witness ==
    /\ pc = "done"
    /\ EvOf("check", 1) # {}
    /\ EvOf("check", 2) # {}

\* C6: in Section.generate_report the k-th perform_check invoked is that of
\* the k-th registered check, whatever the checks before it did; when the
\* report is returned every registered check has been run; the records are
\* those of the checks that were not skipped, in registration order.
C6_ChecksRunOnceInOrder ==
    /\ \A k \in Events : events[k][1] = "check" /\ events[k][3] = k
    /\ Len(events) = ck - 1
    /\ pc = "returned" => Len(events) = nchecks
    /\ checks = SelectSeq([k \in Events |->
                              check_generate_report(idx, k, events[k][4])],
                          LAMBDA r : r # Nothing)

C6_Witness ==
    /\ pc = "returned"
    /\ nchecks = MaxChecks
    /\ events[1][4] = Raises
    /\ events[2][4] = Nothing
    /\ Len(checks) = MaxChecks - 1

\* C7: when a section is bound, skipped or provisioned, no Spawner created
\* while an earlier section was processed is cached.
C7_SpawnerResetBetweenSections ==
    pc \in {"bind", "skip", "provision"} => dep.spawner \in {0, idx}

\* ------------------------------------------------- reading the call log
Ops(log, op) == {i \in 1..Len(log) : log[i][1] = op}
OkOps(log, op) == {i \in Ops(log, op) : log[i][3]}
AllOk(log, ops) == \A i \in 1..Len(log) : log[i][1] \in ops => log[i][3]
ReleaseOps == {"delete_sts", "list_pvc", "delete_pvc"}

SecretScopeClosed == hpc = "closed" /\ scope.kind = "secret"
StsScopeClosed == hpc = "closed" /\ scope.kind = "stateful_set"

\* C8: a secret the lookup of Spawner.secret found is still there when the
\* scope has ended, however the body ended, and the scope created none.
C8_FoundSecretUntouched ==
    (SecretScopeClosed /\ scope.pos = "found")
        => /\ cluster.secret
           /\ OkOps(hlog, "create_secret") = {}

\* C9: with the secret absent and data given, Spawner.secret issues the
\* create call; once the secret is created the body runs with it, nothing is
\* deleted while the body runs, and when the scope has ended, on any exit of
\* the body, exactly one delete call was issued, after the create, and a
\* delete that took effect leaves no secret.
C9_CreatedSecretDeletedOnce ==
    (hpc # "idle" /\ scope.kind = "secret" /\ ~hpre.secret /\ scope.data # None)
        => /\ Cardinality(Ops(hlog, "create_secret")) = 1
           /\ OkOps(hlog, "create_secret") # {}
                => /\ scope.pos = "created"
                   /\ hpc = "body"
                        => cluster.secret /\ Ops(hlog, "delete_secret") = {}
                   /\ hpc = "closed"
                        => /\ hout.body \in BodyExits
                           /\ Cardinality(Ops(hlog, "delete_secret")) = 1
                           /\ \A c \in Ops(hlog, "create_secret"),
                                 d \in Ops(hlog, "delete_secret") : c < d
                           /\ OkOps(hlog, "delete_secret") # {} => ~cluster.secret

C9_Witness ==
    /\ SecretScopeClosed /\ ~hpre.secret /\ scope.data # None
    /\ hout.body = "ApiException"
    /\ OkOps(hlog, "create_secret") # {}
    /\ OkOps(hlog, "delete_secret") # {}
    /\ ~cluster.secret

\* C10: when the scope of a workload that Spawner.stateful_set created has
\* ended, on any exit of the body, one delete call for the workload was
\* issued; every volume claim deletion was issued after it, for a claim
\* labelled app=<workload name>; and when the release calls took effect the
\* workload is gone and no claim with that label is left.
C10_WorkloadThenClaimsDeleted ==
    (StsScopeClosed /\ hout.body \in BodyExits)
        => /\ Cardinality(Ops(hlog, "delete_sts")) = 1
           /\ \A d \in Ops(hlog, "delete_sts") : hlog[d][2] = scope.name
           /\ \A p \in Ops(hlog, "delete_pvc") :
                /\ hlog[p][2][1] = scope.name
                /\ \E d \in OkOps(hlog, "delete_sts") : d < p
           /\ AllOk(hlog, ReleaseOps)
                => /\ scope.name \notin cluster.sts
                   /\ ~ \E p \in cluster.pvcs : p[1] = scope.name

C10_Witness ==
    /\ StsScopeClosed /\ hout.body = "Error"
    /\ scope.nvol = MaxPvc
    /\ Cardinality(OkOps(hlog, "delete_pvc")) >= 2
    /\ AllOk(hlog, ReleaseOps)
    /\ \E p \in cluster.pvcs : p[1] # scope.name

\* C11: when the create call made on entering Spawner.secret,
\* Spawner.service or Spawner.stateful_set failed, the caller receives the
\* ApiException and the scope issued no delete call and no listing or
\* deletion of volume claims.
CreateOps == {"create_secret", "create_service", "create_sts"}
DeleteOps == {"delete_secret", "delete_service", "delete_sts", "list_pvc",
              "delete_pvc"}

C11_FailedCreateNotReleased ==
    (/\ hpc = "closed"
     /\ hout.body = None
     /\ \E c \in 1..Len(hlog) : hlog[c][1] \in CreateOps /\ ~hlog[c][3])
        => /\ hout.st = "ApiException"
           /\ \A d \in 1..Len(hlog) : hlog[d][1] \notin DeleteOps

\* C12: with the secret absent and no data given, Spawner.secret raises
\* NoRegistryCredentials on entry: the body does not run, and neither a
\* create nor a delete call is issued.
C12_NoDataNoSecretRaises ==
    (hpc # "idle" /\ scope.kind = "secret" /\ ~hpre.secret /\ scope.data = None)
        => /\ hpc = "closed"
           /\ hout = [body |-> None, st |-> "NoRegistryCredentials"]
           /\ \A k \in 1..Len(hlog) : hlog[k][1] = "read_secret"

C12_Witness ==
    /\ SecretScopeClosed /\ ~hpre.secret /\ scope.data = None
    /\ hout.st = "NoRegistryCredentials"
    /\ hlog = <<<<"read_secret", None, FALSE>>>>

\* C13: a call of wait_for in which no evaluation of condition returns a
\* non-empty value (and none raises) ends by raising TimeoutError, and when
\* it raises TimeoutError at least timeout and at most timeout + interval
\* seconds have passed since the call.
Elapsed == now - start_time
Evaluations == {k \in 1..Len(wlog) : wlog[k][1] = "condition"}
TimedOut == wpc = "raised" /\ wexc = "TimeoutError"

C13_TimesOutWithinBounds ==
    /\ [](TimedOut => (Elapsed >= timeout /\ Elapsed <= timeout + interval))
    /\ <>(\/ TimedOut
          \/ \E k \in 1..Len(wlog) :
                \/ wlog[k][1] = "raise"
                \/ wlog[k][1] = "condition" /\ Truthy(wlog[k][2]))

C13_Witness ==
    /\ TimedOut
    /\ timeout = MaxTimeout /\ interval = MaxInterval
    /\ Elapsed > timeout
    /\ Cardinality(Evaluations) >= 2
    /\ \A k \in Evaluations : ~Truthy(wlog[k][2])

\* C14: the first evaluation of condition that returns a non-empty value is
\* the last thing wait_for does, and that value is what it returns; every
\* evaluation that returned nothing is followed by one sleep of interval
\* seconds, and by the next evaluation only after it.
C14_FirstValueReturnedAtOnce ==
    /\ \A k \in Evaluations :
          IF Truthy(wlog[k][2])
             THEN /\ k = Len(wlog)
                  /\ wpc = "returned"
                  /\ return_value = wlog[k][2]
             ELSE IF k = Len(wlog) THEN wpc = "sleep"
             ELSE /\ wlog[k + 1] = <<"sleep", interval>>
                  /\ k + 1 < Len(wlog) => wlog[k + 2][1] # "sleep"
    /\ wpc = "returned" => (wlog # <<>> /\ wlog[Len(wlog)][1] = "condition")

C14_Witness ==
    /\ wpc = "returned"
    /\ Len(wlog) = 5
    /\ wlog[1][2] # wlog[3][2]
    /\ return_value = "stateful_set 2"

\* C15: for a section whose skip() returned true nothing is provisioned
\* (its checks are not wired, no resource is initialized), no check is run
\* and no record is yielded; the next step is the release of the section,
\* and the run goes on to the next section.
C15_SkippedSectionLeftAlone ==
    \A k \in Events :
       (events[k][1] = "skip" /\ events[k][3] = "true")
          => LET i == events[k][2]
             IN  /\ EvOf("provision", i) = {} /\ EvOf("check", i) = {}
                 /\ \A a \in 1..Len(yielded) : yielded[a].name # SectionName(i)
                 /\ IF k = Len(events)
                       THEN pc = "release" /\ idx = i /\ exc = None /\ dep.init = {}
                       ELSE events[k + 1] = <<"release", i>>
                 /\ k + 1 = Len(events)
                      => \/ pc = "bind" /\ idx = i + 1
                         \/ pc \in {"aggregate", "done"} /\ idx = i
                 /\ k + 1 < Len(events) => events[k + 2] = <<"bind", i + 1>>

C15_Witness ==
    /\ pc = "done"
    /\ \E k \in Events : events[k] = <<"skip", 1, "true">>
    /\ EvOf("check", 2) # {}
    /\ Len(yielded) = 1
    /\ yielded[1].name = SectionName(2)

\* ------------------------------------------------ reading the final report
\* The checks of section i that were run, in order, and the records of
\* those that returned something.
CheckEvents(i) == SelectSeq(events, LAMBDA e : e[1] = "check" /\ e[2] = i)
Reported(i) ==
    LET ce == CheckEvents(i)
    IN  SelectSeq([k \in 1..Len(ce) |->
                      IF ce[k][4] = Raises
                         THEN [name |-> CheckName(i, ce[k][3]),
                               description |-> CheckDescription(i, ce[k][3]),
                               check |-> CheckResult(FALSE, "Internal error",
                                                     "Unknown", NoProblem)]
                      ELSE IF ce[k][4] = Nothing THEN Nothing
                      ELSE [name |-> CheckName(i, ce[k][3]),
                            description |-> CheckDescription(i, ce[k][3]),
                            check |-> ce[k][4]]],
                 LAMBDA r : r # Nothing)
SectionsOf(rep, i) == {a \in 1..Len(rep.sections) : rep.sections[a].name = SectionName(i)}
Provisioned(i) == \E k \in EvOf("provision", i) : events[k][3]

\* C16: a check whose perform_check returned nothing has no record: when
\* the run is done no section of the report lists a record under the check's
\* name, and the record of its section lists exactly the records of the
\* section's other checks, with the result that those alone give.
C16_SkippedCheckHasNoRecord ==
    pc = "done"
       => \A k \in Events :
             (events[k][1] = "check" /\ events[k][4] = Nothing)
                => LET i == events[k][2]
                       j == events[k][3]
                   IN  /\ \A a \in 1..Len(report.sections) :
                             \A b \in 1..Len(report.sections[a].checks) :
                                report.sections[a].checks[b].name # CheckName(i, j)
                       /\ \A a \in SectionsOf(report, i) :
                             /\ report.sections[a].checks = Reported(i)
                             /\ report.sections[a].result =
                                   \A b \in 1..Len(Reported(i)) :
                                      Reported(i)[b].check.result

C16_Witness ==
    /\ pc = "done"
    /\ Len(CheckEvents(1)) = 2
    /\ CheckEvents(1)[1][4] = Nothing
    /\ Len(report.sections) = 1
    /\ Len(report.sections[1].checks) = 1
    /\ report.sections[1].result

\* C17: a section whose checks all returned nothing, or that has no check,
\* has no record: Section.generate_report returned None for it, nothing was
\* yielded for it, and the report has no entry for it.
C17_EmptySectionHasNoRecord ==
    /\ (/\ pc = "release"
        /\ events[Len(events)][1] \in {"provision", "check"}
        /\ Provisioned(idx)
        /\ Reported(idx) = <<>>)
          => /\ section_result = Nothing
             /\ \A a \in 1..Len(yielded) : yielded[a].name # SectionName(idx)
    /\ pc = "done"
          => \A i \in 1..idx :
                (Provisioned(i) /\ Reported(i) = <<>>) => SectionsOf(report, i) = {}

C17_Witness ==
    /\ pc = "done"
    /\ Len(CheckEvents(1)) = 2
    /\ Provisioned(2) /\ CheckEvents(2) = <<>>
    /\ Reported(1) = <<>>
    /\ report.sections = <<>>

\* C18: the result of a section's record is true exactly when the result of
\* every record in it is true, and the records in it are those of the
\* section's checks that returned something or raised.
C18_SectionResultIsConjunction ==
    (pc = "returned" /\ section_result # Nothing)
        => /\ section_result.checks = Reported(idx)
           /\ section_result.result
                 = (\A k \in Events :
                       events[k][4] = Nothing \/ (events[k][4] # Raises
                                                  /\ events[k][4].result))

C18_Witness ==
    /\ pc = "returned"
    /\ Len(events) = 3
    /\ events[1][4] # Nothing /\ events[1][4] # Raises /\ events[1][4].result
    /\ events[2][4] = Nothing
    /\ events[3][4] # Nothing /\ events[3][4] # Raises /\ ~events[3][4].result
    /\ section_result # Nothing
    /\ ~section_result.result

\* C19: the faults of a section's record are the faults set on its check
\* records, each once, in ascending order ("problem 1" before "problem 2"),
\* whatever the order of the checks; a record without a fault adds nothing.
C19_SectionFaultsSortedUnique ==
    (pc = "returned" /\ section_result # Nothing)
        => LET mp == section_result.major_problems
           IN  /\ {mp[a] : a \in 1..Len(mp)}
                     = {events[k][4].major_problem :
                          k \in {k \in Events :
                                   /\ events[k][4] # Nothing
                                   /\ events[k][4] # Raises
                                   /\ events[k][4].major_problem # NoProblem}}
               /\ \A a, b \in 1..Len(mp) : a < b => mp[a].n < mp[b].n

C19_Witness ==
    /\ pc = "returned"
    /\ Len(events) = 3
    /\ events[1][4] = major_problem([text |-> "problem", n |-> 2])
    /\ events[2][4] = major_problem([text |-> "problem", n |-> 1])
    /\ events[3][4] = major_problem([text |-> "problem", n |-> 2])
    /\ section_result.major_problems
          = <<[text |-> "problem", n |-> 1], [text |-> "problem", n |-> 2]>>

\* C20: the faults of the report are the faults of its sections' records,
\* those of sections that failed provisioning included, each once, in
\* ascending order: "Failed to provision resources for section <name>"
\* before "problem <n>", and by name or number among themselves.
C20_ReportFaultsSortedUnique ==
    pc = "done"
       => LET mp == report.major_problems
          IN  /\ {mp[a] : a \in 1..Len(mp)}
                    = UNION { {report.sections[k].major_problems[b] :
                                 b \in 1..Len(report.sections[k].major_problems)}
                              : k \in 1..Len(report.sections) }
              /\ \A a, b \in 1..Len(mp) :
                    a < b => \/ mp[a].text = mp[b].text /\ mp[a].n < mp[b].n
                             \/ /\ mp[a].text = "Failed to provision resources for section"
                                /\ mp[b].text = "problem"

C20_Witness ==
    /\ pc = "done"
    /\ \E k \in FailedProvisions : events[k][2] = 1
    /\ Len(report.sections) = 2
    /\ report.major_problems = <<ProvisionFault(1), [text |-> "problem", n |-> 1]>>

\* C21: the result of the report is true exactly when the result of every
\* section record in it is true; the report's sections are the records
\* yielded; a run that yielded none (no section, all skipped, all empty)
\* returns the report with result true, no sections and no faults.
C21_ReportResultIsConjunction ==
    pc = "done"
       => /\ report.sections = yielded
          /\ report.result = (\A a \in 1..Len(yielded) : yielded[a].result)
          /\ yielded = <<>>
               => report = [result |-> TRUE, sections |-> <<>>, major_problems |-> <<>>]

C21_Witness ==
    /\ pc = "done"
    /\ idx = 2
    /\ \E k \in Events : events[k] = <<"skip", 1, "true">>
    /\ Provisioned(2) /\ Len(CheckEvents(2)) = 2 /\ Reported(2) = <<>>
    /\ report = [result |-> TRUE, sections |-> <<>>, major_problems |-> <<>>]

\* -------------------------------------------------- reading the registry
\* The checks registered on type c, in the order of the register calls.
RegisteredOn(c) ==
    LET calls == SelectSeq(reglog, LAMBDA call : call[1] = c)
    IN  [n \in 1..Len(calls) |-> calls[n][2]]

\* C22: whatever types are defined and whatever register calls are made, the
\* check list of a section subtype holds the checks registered on that very
\* subtype and no check registered on another one, and the base Section type
\* holds none.
C22_ChecksStayOnTheirType ==
    rpc = "import"
       => /\ \A c \in 1..Len(types) : ListOf(types, heap, c) = RegisteredOn(c)
          /\ ListOf(types, heap, 0) = <<>>

C22_Witness ==
    /\ rpc = "import"
    /\ Len(types) = 2 /\ types[2].base = 1
    /\ reglog = <<<<1, <<"x">>>>, <<2, <<"y">>>>>>
    /\ ListOf(types, heap, 1) = <<<<"x">>>>
    /\ ListOf(types, heap, 2) = <<<<"y">>>>

\* C23: a section subtype defined from a type that has a check list, or
\* with a checks list in its own body, starts with a list of its own that
\* holds the same checks in the same order.
C23_StartsWithCopyOfBaseList ==
    rpc = "import"
       => \A c \in 1..Len(types) :
             /\ types[c].started = IF types[c].given.set THEN types[c].given.list
                                    ELSE types[c].inherited
             /\ \A d \in 1..Len(types) : d # c => types[d].checks # types[c].checks

\* C24: discovering sections with selectors leaves the check lists of the
\* section types as registration made them, so that any later discovery
\* starts from all the registered checks.
C24_DiscoveryLeavesRegistryAlone ==
    rpc = "run"
       => \A c \in 1..Len(types) : ListOf(types, heap, c) = RegisteredOn(c)

\* What the selectors of the last discovery say: the sections they mention
\* and the checks they name in section c.
Selectors == IF selected = <<>> \/ selected[1].none THEN <<>> ELSE selected[1].items
Mentioned(c) ==
    \/ Selectors = <<>>
    \/ \E n \in 1..Len(Selectors) : split(Selectors[n])[1] = ModName(c)
Named(c) ==
    {split(Selectors[n])[2] : n \in {m \in 1..Len(Selectors) :
                                       /\ Len(split(Selectors[m])) = 2
                                       /\ split(Selectors[m])[1] = ModName(c)}}
Discovered == found # <<>> /\ found[1].exc = None

\* C30: a discovery yields the sections its selectors mention, and a section
\* whose checks are named holds exactly its registered checks of those
\* names, in registration order; a bare section selector beside them changes
\* nothing, and names that match no registered check leave an empty list.
C30_NamedChecksInRegistrationOrder ==
    (rpc = "run" /\ Discovered)
       => /\ found[1].sections = SelectSeq(<<1, 2>>, Mentioned)
          /\ \A c \in 1..Len(types) :
                (Mentioned(c) /\ Named(c) # {})
                   => ListOf(types, heap, c)
                        = SelectSeq(RegisteredOn(c), LAMBDA check : check \in Named(c))

\* A selector read character by character: its dots, and the text before
\* and after its first dot.
Dots(text) == {i \in 1..Len(text) : text[i] = "."}
SectionPart(text) ==
    IF Dots(text) = {} THEN text
    ELSE SubSeq(text, 1, (CHOOSE i \in Dots(text) : \A j \in Dots(text) : i <= j) - 1)
CheckPart(text) ==
    SubSeq(text, (CHOOSE i \in Dots(text) : \A j \in Dots(text) : i <= j) + 1, Len(text))
WellFormed(text) ==
    /\ Cardinality(Dots(text)) <= 1
    /\ SectionPart(text) # <<>>
    /\ Dots(text) # {} => CheckPart(text) # <<>>
ChecksNamedFor(items, section) ==
    LET named == SelectSeq(items, LAMBDA text : Dots(text) # {} /\ SectionPart(text) = section)
    IN  [n \in 1..Len(named) |-> CheckPart(named[n])]

\* C25: process_checks_to_find raises ValueError when a selector is empty,
\* has an empty component or more than two components; otherwise it returns
\* the mapping whose keys are the sections the selectors mention, each with
\* the checks named for it in input order (none for a section only given
\* bare); None and the empty list give the empty mapping.
C25_SelectorsToMapping ==
    (rpc = "parse" /\ found # <<>>)
       => LET items == IF selected[1].none THEN <<>> ELSE selected[1].items
              result == found[1]
          IN  IF \E n \in 1..Len(items) : ~WellFormed(items[n])
                 THEN result.exc = "ValueError"
                 ELSE /\ result.exc = None
                      /\ DOMAIN result.map = {SectionPart(items[n]) : n \in 1..Len(items)}
                      /\ \A section \in DOMAIN result.map :
                            result.map[section] = ChecksNamedFor(items, section)

C25_Witness ==
    /\ rpc = "parse"
    /\ selected = <<[none |-> FALSE, items |-> <<<<"s", ".", "y">>, <<"s">>>>]>>
    /\ found = <<[exc |-> None, map |-> [section \in {<<"s">>} |-> <<<<"y">>>>]]>>

\* C26: when the readiness wait inside RegistryAccess or RequestingPVC times
\* out, the workload the check spawned is deleted and the record of the
\* check carries a fault.  (Stated for runs in which every call to the
\* cluster succeeds.)
CheckTimedOut == hpc = "closed" /\ scope.kind = "check" /\ scope.pos = "TimeoutError"

C26_TimeoutInCheckIsFault ==
    (CheckTimedOut /\ AllOk(hlog, CreateOps \cup DeleteOps \cup {"read_sts"}))
       => /\ OkOps(hlog, "delete_sts") # {}
          /\ hpre.sts \subseteq cluster.sts /\ cluster.sts \subseteq hpre.sts
          /\ Len(checks) = 1
          /\ ~checks[1].check.result
          /\ checks[1].check.major_problem # NoProblem

\* C27: a run started through main without a registry user name and without
\* a registry password, in a cluster without the registry secret, fails to
\* provide registry_secret with NoRegistryCredentials and creates no secret.
C27_NoCredentialsNoSecret ==
    (/\ cli.registry_username = PyNone /\ cli.registry_password = PyNone
     /\ hpc \in {"body", "closed"} /\ scope.kind = "secret" /\ ~hpre.secret)
        => /\ hpc = "closed"
           /\ hout = [body |-> None, st |-> "NoRegistryCredentials"]
           /\ Ops(hlog, "create_secret") = {}

\* C28: with faults only made by AbstractCheck.major_problem and
\* Section.failed_report, a fault means failure at every level: a check
\* record with a fault, a section record with faults and a report with
\* faults all have result false.  (checks holds the check records of the
\* section being run, before they enter its section record.)
CheckFails(record) == record.check.major_problem # NoProblem => ~record.check.result

C28_FaultImpliesFailure ==
    /\ \A j \in 1..Len(checks) : CheckFails(checks[j])
    /\ \A a \in 1..Len(yielded) : yielded[a].major_problems # <<>> => ~yielded[a].result
    /\ pc = "done" => (report.major_problems # <<>> => ~report.result)

C28_Witness ==
    /\ pc = "done"
    /\ Len(yielded) = 2
    /\ yielded[1].major_problems = <<ProvisionFault(1)>>
    /\ Len(yielded[2].checks) = 1
    /\ yielded[2].checks[1].check = major_problem([text |-> "problem", n |-> 1])
    /\ ~yielded[2].result
    /\ report.major_problems = <<ProvisionFault(1), [text |-> "problem", n |-> 1]>>
    /\ ~report.result

\* C29: wait_for with a timeout of 0 or less raises TimeoutError at once,
\* its condition never evaluated and no sleep made, whatever the condition
\* would have returned; with a timeout above 0 the condition is evaluated
\* at least once before wait_for ends.
C29_NoTimeNoEvaluation ==
    /\ (timeout <= 0 /\ wpc # "test")
          => wpc = "raised" /\ wexc = "TimeoutError" /\ wlog = <<>>
    /\ (timeout > 0 /\ wpc \in {"returned", "raised"})
          => wlog # <<>> /\ wlog[1][1] \in {"condition", "raise"}

C29_Witness ==
    /\ timeout = 0
    /\ wpc = "raised" /\ wexc = "TimeoutError"
    /\ wlog = <<>> /\ now = start_time

=============================================================================
